---------------------------- MODULE Spec2Model ----------------------------
(***************************************************************************)
(* error-express: the error taxonomy (AppError and its variants), the      *)
(* response formatter handleError, the terminal middleware                  *)
(* globalErrorHandler, and the dispatch interceptor wrap() that forwards   *)
(* the rejection of a handler's promise to next().                         *)
(***************************************************************************)
EXTENDS Integers, Sequences, FiniteSets, TLC

(***************************************************************************)
(* statusCodes: HttpStatusCodes in key order (Object.keys order), and      *)
(* DefaultStatusMessages, whose keys are the computed                       *)
(* [HttpStatusCodes.NAME] numbers.                                          *)
(***************************************************************************)
HttpStatusCodes ==
  << <<"CONTINUE", 100>>, <<"SWITCHING_PROTOCOLS", 101>>, <<"PROCESSING", 102>>,
     <<"EARLY_HINTS", 103>>, <<"OK", 200>>, <<"CREATED", 201>>, <<"ACCEPTED", 202>>,
     <<"NON_AUTHORITATIVE_INFORMATION", 203>>, <<"NO_CONTENT", 204>>,
     <<"RESET_CONTENT", 205>>, <<"PARTIAL_CONTENT", 206>>, <<"MULTI_STATUS", 207>>,
     <<"ALREADY_REPORTED", 208>>, <<"IM_USED", 226>>, <<"MULTIPLE_CHOICES", 300>>,
     <<"MOVED_PERMANENTLY", 301>>, <<"FOUND", 302>>, <<"SEE_OTHER", 303>>,
     <<"NOT_MODIFIED", 304>>, <<"USE_PROXY", 305>>, <<"TEMPORARY_REDIRECT", 307>>,
     <<"PERMANENT_REDIRECT", 308>>, <<"BAD_REQUEST", 400>>, <<"UNAUTHORIZED", 401>>,
     <<"PAYMENT_REQUIRED", 402>>, <<"FORBIDDEN", 403>>, <<"NOT_FOUND", 404>>,
     <<"METHOD_NOT_ALLOWED", 405>>, <<"NOT_ACCEPTABLE", 406>>,
     <<"PROXY_AUTHENTICATION_REQUIRED", 407>>, <<"REQUEST_TIMEOUT", 408>>,
     <<"CONFLICT", 409>>, <<"GONE", 410>>, <<"LENGTH_REQUIRED", 411>>,
     <<"PRECONDITION_FAILED", 412>>, <<"PAYLOAD_TOO_LARGE", 413>>, <<"URI_TOO_LONG", 414>>,
     <<"UNSUPPORTED_MEDIA_TYPE", 415>>, <<"RANGE_NOT_SATISFIABLE", 416>>,
     <<"EXPECTATION_FAILED", 417>>, <<"IM_A_TEAPOT", 418>>, <<"MISDIRECTED_REQUEST", 421>>,
     <<"UNPROCESSABLE_ENTITY", 422>>, <<"LOCKED", 423>>, <<"FAILED_DEPENDENCY", 424>>,
     <<"TOO_EARLY", 425>>, <<"UPGRADE_REQUIRED", 426>>, <<"PRECONDITION_REQUIRED", 428>>,
     <<"TOO_MANY_REQUESTS", 429>>, <<"REQUEST_HEADER_FIELDS_TOO_LARGE", 431>>,
     <<"UNAVAILABLE_FOR_LEGAL_REASONS", 451>>, <<"INTERNAL_SERVER_ERROR", 500>>,
     <<"NOT_IMPLEMENTED", 501>>, <<"BAD_GATEWAY", 502>>, <<"SERVICE_UNAVAILABLE", 503>>,
     <<"GATEWAY_TIMEOUT", 504>>, <<"HTTP_VERSION_NOT_SUPPORTED", 505>>,
     <<"VARIANT_ALSO_NEGOTIATES", 506>>, <<"INSUFFICIENT_STORAGE", 507>>,
     <<"LOOP_DETECTED", 508>>, <<"NOT_EXTENDED", 510>>,
     <<"NETWORK_AUTHENTICATION_REQUIRED", 511>> >>

DefaultStatusMessagesEntries ==
  << <<"CONTINUE", "Continue">>, <<"SWITCHING_PROTOCOLS", "Switching Protocols">>,
     <<"PROCESSING", "Processing">>, <<"EARLY_HINTS", "Early Hints">>, <<"OK", "OK">>,
     <<"CREATED", "Created">>, <<"ACCEPTED", "Accepted">>,
     <<"NON_AUTHORITATIVE_INFORMATION", "Non-Authoritative Information">>,
     <<"NO_CONTENT", "No Content">>, <<"RESET_CONTENT", "Reset Content">>,
     <<"PARTIAL_CONTENT", "Partial Content">>, <<"MULTI_STATUS", "Multi-Status">>,
     <<"ALREADY_REPORTED", "Already Reported">>, <<"IM_USED", "IM Used">>,
     <<"MULTIPLE_CHOICES", "Multiple Choices">>,
     <<"MOVED_PERMANENTLY", "Moved Permanently">>, <<"FOUND", "Found">>,
     <<"SEE_OTHER", "See Other">>, <<"NOT_MODIFIED", "Not Modified">>,
     <<"USE_PROXY", "Use Proxy">>, <<"TEMPORARY_REDIRECT", "Temporary Redirect">>,
     <<"PERMANENT_REDIRECT", "Permanent Redirect">>, <<"BAD_REQUEST", "Bad Request">>,
     <<"UNAUTHORIZED", "Unauthorized">>, <<"PAYMENT_REQUIRED", "Payment Required">>,
     <<"FORBIDDEN", "Forbidden">>, <<"NOT_FOUND", "Not Found">>,
     <<"METHOD_NOT_ALLOWED", "Method Not Allowed">>,
     <<"NOT_ACCEPTABLE", "Not Acceptable">>,
     <<"PROXY_AUTHENTICATION_REQUIRED", "Proxy Authentication Required">>,
     <<"REQUEST_TIMEOUT", "Request Timeout">>, <<"CONFLICT", "Conflict">>,
     <<"GONE", "Gone">>, <<"LENGTH_REQUIRED", "Length Required">>,
     <<"PRECONDITION_FAILED", "Precondition Failed">>,
     <<"PAYLOAD_TOO_LARGE", "Payload Too Large">>, <<"URI_TOO_LONG", "URI Too Long">>,
     <<"UNSUPPORTED_MEDIA_TYPE", "Unsupported Media Type">>,
     <<"RANGE_NOT_SATISFIABLE", "Range Not Satisfiable">>,
     <<"EXPECTATION_FAILED", "Expectation Failed">>, <<"IM_A_TEAPOT", "I'm a teapot">>,
     <<"MISDIRECTED_REQUEST", "Misdirected Request">>,
     <<"UNPROCESSABLE_ENTITY", "Unprocessable Entity">>, <<"LOCKED", "Locked">>,
     <<"FAILED_DEPENDENCY", "Failed Dependency">>, <<"TOO_EARLY", "Too Early">>,
     <<"UPGRADE_REQUIRED", "Upgrade Required">>,
     <<"PRECONDITION_REQUIRED", "Precondition Required">>,
     <<"TOO_MANY_REQUESTS", "Too Many Requests">>,
     <<"REQUEST_HEADER_FIELDS_TOO_LARGE", "Request Header Fields Too Large">>,
     <<"UNAVAILABLE_FOR_LEGAL_REASONS", "Unavailable For Legal Reasons">>,
     <<"INTERNAL_SERVER_ERROR", "Internal Server Error">>,
     <<"NOT_IMPLEMENTED", "Not Implemented">>, <<"BAD_GATEWAY", "Bad Gateway">>,
     <<"SERVICE_UNAVAILABLE", "Service Unavailable">>,
     <<"GATEWAY_TIMEOUT", "Gateway Timeout">>,
     <<"HTTP_VERSION_NOT_SUPPORTED", "HTTP Version Not Supported">>,
     <<"VARIANT_ALSO_NEGOTIATES", "Variant Also Negotiates">>,
     <<"INSUFFICIENT_STORAGE", "Insufficient Storage">>,
     <<"LOOP_DETECTED", "Loop Detected">>, <<"NOT_EXTENDED", "Not Extended">>,
     <<"NETWORK_AUTHENTICATION_REQUIRED", "Network Authentication Required">> >>

\* HttpStatusCodes.NAME
StatusOf(name) ==
  LET i == CHOOSE j \in 1..Len(HttpStatusCodes) : HttpStatusCodes[j][1] = name
  IN  HttpStatusCodes[i][2]

\* The numbers that are a value of HttpStatusCodes.
KnownStatusCodes == { HttpStatusCodes[j][2] : j \in 1..Len(HttpStatusCodes) }

\* JS undefined where a string is expected (a missing table entry).
Undefined == "<undefined>"

\* DefaultStatusMessages[code]: the phrase stored under the computed key.
DefaultStatusMessages(code) ==
  LET hits == { j \in 1..Len(DefaultStatusMessagesEntries) :
                  StatusOf(DefaultStatusMessagesEntries[j][1]) = code }
  IN  IF hits = {} THEN Undefined
      ELSE DefaultStatusMessagesEntries[CHOOSE j \in hits : \A k \in hits : k <= j][2]

(***************************************************************************)
(* Bounds of the input sets.                                                *)
(***************************************************************************)
\* Longest argument list drawn freely for a call of a wrapped handler.
MaxFreeArgs == 2
\* Number of calls of the wrapped handler that may be in flight together.
MaxCalls == 2

\* Messages a caller may supply: the empty string, free text, and text equal
\* to a table phrase.
Messages == { "", "db down", "Not Found", "Internal Server Error" }

\* Status numbers a caller may hand to ServerError / AppError: codes of the
\* table and numbers that no key of the table has.
StatusInputs == { 0, 299, 400, 404, 500, 503, 999 }

\* Machine codes a caller may hand to AppError explicitly.
CodeInputs == { "", "E_CUSTOM" }

\* An optional argument: <<>> when the caller passes none, <<v>> otherwise.
Opt(S) == { <<>> } \cup { <<v>> : v \in S }

(***************************************************************************)
(* error.ts: the taxonomy.                                                  *)
(***************************************************************************)
\* getStatusCodeKey testing the position of the match for truthiness
\* (findIndex, then `idx ? key : fallback`): a match at the first key is
\* taken for no match.
getStatusCodeKey_falsyIndex(statusCode) ==
  LET hits == { j \in 2..Len(HttpStatusCodes) : HttpStatusCodes[j][2] = statusCode }
  IN  IF hits = {} THEN "INTERNAL_SERVER_ERROR"
      ELSE HttpStatusCodes[CHOOSE j \in hits : \A k \in hits : j <= k][1]

\* getStatusCodeKey: the first key of HttpStatusCodes (in key order) whose
\* value is statusCode, "INTERNAL_SERVER_ERROR" when there is none.
getStatusCodeKey(statusCode) ==
  LET hits == { j \in 1..Len(HttpStatusCodes) : HttpStatusCodes[j][2] = statusCode }
  IN  IF hits = {} THEN "INTERNAL_SERVER_ERROR"
      ELSE HttpStatusCodes[CHOOSE j \in hits : \A k \in hits : j <= k][1]

\* AppError replacing an empty message by the table phrase (message || phrase).
AppError_defaultsEmptyMessage(ctor, message, statusCode, isOparational, code) ==
  [ proto         |-> "AppError",
    ctor          |-> ctor,
    message       |-> IF message = "" THEN DefaultStatusMessages(statusCode) ELSE message,
    statusCode    |-> statusCode,
    isOparational |-> IF isOparational = <<>> THEN TRUE ELSE isOparational[1],
    code          |-> IF code = <<>> THEN getStatusCodeKey(statusCode) ELSE code[1] ]

\* AppError deriving the operational flag from the status (4xx operational,
\* everything else not) instead of taking the constructor's argument.
AppError_flagFromStatus(ctor, message, statusCode, isOparational, code) ==
  [ proto         |-> "AppError",
    ctor          |-> ctor,
    message       |-> message,
    statusCode    |-> statusCode,
    isOparational |-> statusCode \in 400..499,
    code          |-> IF code = <<>> THEN getStatusCodeKey(statusCode) ELSE code[1] ]

\* AppError taking the derived code for every falsy code argument
\* (code || getStatusCodeKey(statusCode)).
AppError_codeOrDerived(ctor, message, statusCode, isOparational, code) ==
  [ proto         |-> "AppError",
    ctor          |-> ctor,
    message       |-> message,
    statusCode    |-> statusCode,
    isOparational |-> IF isOparational = <<>> THEN TRUE ELSE isOparational[1],
    code          |-> IF code = <<>> \/ code = << "" >>
                      THEN getStatusCodeKey(statusCode) ELSE code[1] ]

\* AppError without Object.setPrototypeOf, compiled for a target where a
\* class extending Error leaves its instances with Error.prototype.
AppError_withoutSetPrototypeOf(ctor, message, statusCode, isOparational, code) ==
  [ proto         |-> "Error",
    ctor          |-> ctor,
    message       |-> message,
    statusCode    |-> statusCode,
    isOparational |-> IF isOparational = <<>> THEN TRUE ELSE isOparational[1],
    code          |-> IF code = <<>> THEN getStatusCodeKey(statusCode) ELSE code[1] ]

\* new AppError(message, statusCode, isOparational = true, code?).  ctor is
\* the class named in the `new` expression; proto is the prototype the
\* instance is left with: Object.setPrototypeOf(this, AppError.prototype).
AppError(ctor, message, statusCode, isOparational, code) ==
  [ proto         |-> "AppError",
    ctor          |-> ctor,
    message       |-> message,
    statusCode    |-> statusCode,
    isOparational |-> IF isOparational = <<>> THEN TRUE ELSE isOparational[1],
    code          |-> IF code = <<>> THEN getStatusCodeKey(statusCode) ELSE code[1] ]

\* ServerError taking the default for every falsy status (statusCode || 500).
ServerError_orDefault(message, statusCode) ==
  [ proto         |-> "AppError",
    ctor          |-> "ServerError",
    message       |-> message,
    statusCode    |-> IF statusCode = <<>> \/ statusCode = << 0 >> THEN 500
                      ELSE statusCode[1],
    isOparational |-> TRUE,
    code          |-> getStatusCodeKey(IF statusCode = <<>> \/ statusCode = << 0 >>
                                       THEN 500 ELSE statusCode[1]) ]

\* new ServerError(message, statusCode = HttpStatusCodes.INTERNAL_SERVER_ERROR)
ServerError(message, statusCode) ==
  AppError("ServerError", message,
           IF statusCode = <<>> THEN StatusOf("INTERNAL_SERVER_ERROR") ELSE statusCode[1],
           <<TRUE>>, <<>>)

\* The fixed-status classes: class name -> the HttpStatusCodes key its
\* constructor names.
VariantKey ==
  [ BadRequestError           |-> "BAD_REQUEST",
    NotFoundError             |-> "NOT_FOUND",
    UnauthorizedError         |-> "UNAUTHORIZED",
    ForbiddenError            |-> "FORBIDDEN",
    ConflictError             |-> "CONFLICT",
    UnprocessableEntityError  |-> "UNPROCESSABLE_ENTITY",
    MethodNotAllowedError     |-> "METHOD_NOT_ALLOWED",
    NotAcceptableError        |-> "NOT_ACCEPTABLE",
    RequestTimeoutError       |-> "REQUEST_TIMEOUT",
    PayloadTooLargeError      |-> "PAYLOAD_TOO_LARGE",
    UnsupportedMediaTypeError |-> "UNSUPPORTED_MEDIA_TYPE",
    TooManyRequestsError      |-> "TOO_MANY_REQUESTS",
    PaymentRequiredError      |-> "PAYMENT_REQUIRED",
    GoneError                 |-> "GONE",
    PreconditionFailedError   |-> "PRECONDITION_FAILED",
    NotImplementedError       |-> "NOT_IMPLEMENTED",
    BadGatewayError           |-> "BAD_GATEWAY",
    ServiceUnavailableError   |-> "SERVICE_UNAVAILABLE",
    GatewayTimeoutError       |-> "GATEWAY_TIMEOUT",
    InsufficientStorageError  |-> "INSUFFICIENT_STORAGE" ]

Variants == DOMAIN VariantKey

\* A fixed-status class whose default message is the phrase of 500.
VariantError_wrongDefault(V, message) ==
  [ proto         |-> "AppError",
    ctor          |-> V,
    message       |-> IF message = <<>> THEN "Internal Server Error" ELSE message[1],
    statusCode    |-> StatusOf(VariantKey[V]),
    isOparational |-> TRUE,
    code          |-> getStatusCodeKey(StatusOf(VariantKey[V])) ]

\* new V(message = DefaultStatusMessages[HttpStatusCodes.K]) for a fixed-status
\* class V: super(message, HttpStatusCodes.K, true).
VariantError(V, message) ==
  AppError(V,
           IF message = <<>> THEN DefaultStatusMessages(StatusOf(VariantKey[V]))
                             ELSE message[1],
           StatusOf(VariantKey[V]), <<TRUE>>, <<>>)

\* Classes an application derives from AppError (README, "AppError - Base
\* Class"): CustomValidationError extends AppError and calls
\* super(message, status, true); CustomFieldError extends
\* CustomValidationError and passes its arguments up.
UserClasses == { "CustomValidationError", "CustomFieldError" }

\* class C extends D: the class each class extends.
Extends ==
  [ c \in Variants \cup { "ServerError" } \cup UserClasses \cup { "AppError", "Error" } |->
      IF c = "Error" THEN "Object"
      ELSE IF c = "AppError" THEN "Error"
      ELSE IF c = "CustomFieldError" THEN "CustomValidationError"
      ELSE "AppError" ]

\* The prototypes on the chain of an object whose prototype is p's.
RECURSIVE PrototypeChain(_)
PrototypeChain(p) ==
  IF p \in DOMAIN Extends THEN { p } \cup PrototypeChain(Extends[p]) ELSE { p }

\* x instanceof AppError: AppError.prototype is on x's prototype chain.
InstanceOfAppError(x) == "AppError" \in PrototypeChain(x.proto)

\* Failure values that no taxonomy constructor built: a plain Error, a plain
\* object (either may carry message / statusCode / isOparational / code
\* properties of its own), a string, null, undefined.
RawFailures ==
  [ proto : { "Error", "Object" }, ctor : { "" },
    message : { "boom", "Not Found" }, statusCode : { 404, 500 },
    isOparational : BOOLEAN, code : { "", "NOT_FOUND" } ]
  \cup
  [ proto : { "string", "null", "undefined" }, ctor : { "" },
    message : { "" }, statusCode : { 0 },
    isOparational : { FALSE }, code : { "" } ]

\* handleError without the test of the operational flag.
handleError_ignoresFlag(err) ==
  IF InstanceOfAppError(err)
  THEN [ status |-> "error", statusCode |-> err.statusCode,
         message |-> err.message, code |-> err.code ]
  ELSE [ status |-> "error", statusCode |-> 500,
         message |-> "Internal Server Error", code |-> "INTERNAL_SERVER_ERROR" ]

\* handleError deriving the code from the status instead of reading err.code.
handleError_derivesCode(err) ==
  IF InstanceOfAppError(err) /\ err.isOparational
  THEN [ status |-> "error", statusCode |-> err.statusCode,
         message |-> err.message, code |-> getStatusCodeKey(err.statusCode) ]
  ELSE [ status |-> "error", statusCode |-> 500,
         message |-> "Internal Server Error", code |-> "INTERNAL_SERVER_ERROR" ]

\* handleError reading the flag before the instanceof test
\* (err.isOparational && err instanceof AppError): the property read throws
\* TypeError for null and undefined, and the TypeError is what the caller
\* gets.
handleError_readsFlagFirst(err) ==
  IF err.proto \in { "null", "undefined" }
  THEN [ proto |-> "Error", ctor |-> "TypeError", message |-> "Cannot read properties",
         statusCode |-> 0, isOparational |-> FALSE, code |-> "" ]
  ELSE IF err.isOparational /\ InstanceOfAppError(err)
  THEN [ status |-> "error", statusCode |-> err.statusCode,
         message |-> err.message, code |-> err.code ]
  ELSE [ status |-> "error", statusCode |-> 500,
         message |-> "Internal Server Error", code |-> "INTERNAL_SERVER_ERROR" ]

\* handleError adding the failure's stack to the envelope.
handleError_withStack(err) ==
  IF InstanceOfAppError(err) /\ err.isOparational
  THEN [ status |-> "error", statusCode |-> err.statusCode,
         message |-> err.message, code |-> err.code, stack |-> err.ctor ]
  ELSE [ status |-> "error", statusCode |-> 500,
         message |-> "Internal Server Error", code |-> "INTERNAL_SERVER_ERROR",
         stack |-> err.ctor ]

\* handleError(err)
handleError(err) ==
  IF InstanceOfAppError(err) /\ err.isOparational
  THEN [ status     |-> "error",
         statusCode |-> err.statusCode,
         message    |-> err.message,
         code       |-> err.code ]
  ELSE [ status     |-> "error",
         statusCode |-> StatusOf("INTERNAL_SERVER_ERROR"),
         message    |-> DefaultStatusMessages(StatusOf("INTERNAL_SERVER_ERROR")),
         code       |-> getStatusCodeKey(StatusOf("INTERNAL_SERVER_ERROR")) ]

\* The body globalErrorHandler hands to res.json.
ResponseBody(errorResponse) ==
  [ status     |-> errorResponse.status,
    statusCode |-> errorResponse.statusCode,
    message    |-> errorResponse.message,
    code       |-> errorResponse.code ]

\* A response handle on which nothing has been written.  fault names the
\* write that the handle refuses by throwing ("none": it accepts both;
\* "sent": it refuses a body once a body has been sent on it).
FreshRes(fault) ==
  [ statusCalls |-> <<>>, jsonCalls |-> <<>>, fault |-> fault ]

ResFaults == { "none", "status", "json" }

\* res.status(..) throws on r / res.json(..) throws on r
StatusThrows(r) == r.fault = "status"
JsonThrows(r) == r.fault = "json" \/ (r.fault = "sent" /\ r.jsonCalls # <<>>)

\* globalErrorHandler answering every failure with status 500.
globalErrorHandler_always500(e, r) ==
  IF StatusThrows(r)
  THEN [ res |-> r, outcome |-> "threw" ]
  ELSE IF JsonThrows(r)
  THEN [ res |-> [ r EXCEPT !.statusCalls = Append(@, 500) ], outcome |-> "threw" ]
  ELSE [ res |-> [ r EXCEPT !.statusCalls = Append(@, 500),
                            !.jsonCalls = Append(@, ResponseBody(handleError(e))) ],
         outcome |-> "returned" ]

\* globalErrorHandler(err, _req, res, _next):
\*   const errorResponse = handleError(err);
\*   res.status(errorResponse.statusCode).json({...});
\* There is no try/catch: an exception of res.status or res.json leaves the
\* handler.  The result is the handle afterwards and how the handler ended.
globalErrorHandler(e, r) ==
  LET errorResponse == handleError(e) IN
  IF StatusThrows(r)
  THEN [ res |-> r, outcome |-> "threw" ]
  ELSE LET r1 == [ r EXCEPT !.statusCalls = Append(@, errorResponse.statusCode) ] IN
       IF JsonThrows(r)
       THEN [ res |-> r1, outcome |-> "threw" ]
       ELSE [ res |-> [ r1 EXCEPT !.jsonCalls = Append(@, ResponseBody(errorResponse)) ],
              outcome |-> "returned" ]

(***************************************************************************)
(* State.                                                                   *)
(*   err, built     the failure value in hand and the expression that made *)
(*                  it                                                      *)
(*   formatted      <<>> or <<e>>: the envelope the last direct call of     *)
(*                  handleError(err) returned                               *)
(*   res, gehState  the response handle of the request and where            *)
(*                  globalErrorHandler stands ("idle", "returned", "threw")*)
(*   calls          the calls of the wrapped handler, by call id            *)
(*   loads, loadErrors   how often the module body has been run and how    *)
(*                  often it ended in an exception                          *)
(*   accessorDefined, paramDepth   whether Layer.prototype.handle is the   *)
(*                  accessor, and how many wrap-then-delegate functions    *)
(*                  stand in front of the host's Router.param               *)
(*   handle         the __handle slot of each layer                         *)
(*   registration   the latest registration: an assignment to a layer's    *)
(*                  handle property or a call of Router.param               *)
(*   dispatch       the call of a stored handler that is under way          *)
(***************************************************************************)
VARIABLES err, built, formatted, res, gehState, calls,
          loads, loadErrors, accessorDefined, paramDepth, handle,
          registration, dispatch

varsFormat == << err, built, formatted, res, gehState >>
varsWrap == << calls >>
varsPatch == << loads, loadErrors, accessorDefined, paramDepth, handle,
                registration, dispatch >>
vars == << err, built, formatted, res, gehState, calls,
           loads, loadErrors, accessorDefined, paramDepth, handle,
           registration, dispatch >>

\* The `new` expression (or literal) a failure value came from.
Built(ctor, message, statusCode, isOparational, code) ==
  [ ctor |-> ctor, message |-> message, statusCode |-> statusCode,
    isOparational |-> isOparational, code |-> code ]

NotBuilt == Built("", <<>>, <<>>, <<>>, <<>>)

\* No failure has been raised yet.
NoFailure ==
  [ proto |-> "none", ctor |-> "", message |-> "", statusCode |-> 0,
    isOparational |-> FALSE, code |-> "" ]

\* JS undefined as a failure value.
UndefinedValue ==
  [ proto |-> "undefined", ctor |-> "", message |-> "", statusCode |-> 0,
    isOparational |-> FALSE, code |-> "" ]

(***************************************************************************)
(* Taxonomy, formatter and terminal handler: one failure value is raised,  *)
(* formatted and written to the response handle of its request.            *)
(***************************************************************************)
\* The request a raised failure belongs to: nothing formatted yet, nothing
\* written on its response handle.
FailureRaised ==
  /\ err = NoFailure
  /\ formatted' = <<>>
  /\ gehState' = "idle"
  /\ UNCHANGED << res, calls >>
  /\ UNCHANGED varsPatch

\* throw new V() / throw new V(message), V a fixed-status class
ThrowVariant ==
  \E V \in Variants, m \in Opt(Messages) :
    /\ err' = VariantError(V, m)
    /\ built' = Built(V, m, <<>>, <<>>, <<>>)
    /\ FailureRaised

\* throw new ServerError(message) / throw new ServerError(message, statusCode)
ThrowServerError ==
  \E m \in Messages, s \in Opt(StatusInputs) :
    /\ err' = ServerError(m, s)
    /\ built' = Built("ServerError", <<m>>, s, <<>>, <<>>)
    /\ FailureRaised

\* throw new AppError(message, statusCode[, isOparational[, code]])
ThrowAppError ==
  \E m \in Messages, s \in StatusInputs, o \in Opt(BOOLEAN), c \in Opt(CodeInputs) :
    /\ err' = AppError("AppError", m, s, o, c)
    /\ built' = Built("AppError", <<m>>, <<s>>, o, c)
    /\ FailureRaised

\* throw new C(message, status), C a class the application derived from
\* AppError, whose constructor chain ends in super(message, status, true)
ThrowSubclass ==
  \E C \in UserClasses, m \in Messages, s \in StatusInputs :
    /\ err' = AppError(C, m, s, <<TRUE>>, <<>>)
    /\ built' = Built(C, <<m>>, <<s>>, <<TRUE>>, <<>>)
    /\ FailureRaised

\* A failure no taxonomy constructor built reaches the error channel.
ThrowRaw ==
  \E x \in RawFailures :
    /\ err' = x
    /\ built' = NotBuilt
    /\ FailureRaised

\* A formatter that normalises the failure in place before reading it
\* (err.statusCode = err.statusCode || 500 and the like).
HandleError_normalisesInPlace ==
  /\ err # NoFailure
  /\ formatted' = << handleError(err) >>
  /\ err' = [ err EXCEPT !.statusCode = handleError(err).statusCode ]
  /\ UNCHANGED << built, res, gehState, calls >>
  /\ UNCHANGED varsPatch

\* A direct call of handleError(err), as a custom terminal handler makes.
HandleError ==
  /\ err # NoFailure
  /\ formatted' = << handleError(err) >>
  /\ UNCHANGED << err, built, res, gehState, calls >>
  /\ UNCHANGED varsPatch

\* The host calls globalErrorHandler(err, req, res, next).
GlobalErrorHandler ==
  /\ err # NoFailure
  /\ gehState = "idle"
  /\ res' = globalErrorHandler(err, res).res
  /\ gehState' = globalErrorHandler(err, res).outcome
  /\ UNCHANGED << err, built, formatted, calls >>
  /\ UNCHANGED varsPatch

\* The request is over; the next one starts with a response handle of its
\* own.
NextRequest ==
  /\ gehState # "idle"
  /\ err' = NoFailure
  /\ built' = NotBuilt
  /\ formatted' = <<>>
  /\ gehState' = "idle"
  /\ \E fault \in ResFaults : res' = FreshRes(fault)
  /\ UNCHANGED calls
  /\ UNCHANGED varsPatch

InitFormat ==
  /\ err = NoFailure
  /\ built = NotBuilt
  /\ formatted = <<>>
  /\ \E fault \in ResFaults : res = FreshRes(fault)
  /\ gehState = "idle"

NextFormat ==
  \/ ThrowVariant
  \/ ThrowServerError
  \/ ThrowAppError
  \/ ThrowSubclass
  \/ ThrowRaw
  \/ HandleError
  \/ GlobalErrorHandler
  \/ NextRequest

(***************************************************************************)
(* The superseded terminal handler kept in the repository next to the      *)
(* current one: CustomError, its ServerError and the async                  *)
(* globalErrorHandler built on them.                                        *)
(***************************************************************************)
\* new ServerError(message, statusCode?) of the superseded taxonomy:
\* super(message, statusCode || 500), status = "error".
SupersededServerError(message, statusCode) ==
  [ proto         |-> "CustomError",
    ctor          |-> "CustomError.ServerError",
    message       |-> message,
    statusCode    |-> IF statusCode = <<>> \/ statusCode = << 0 >> THEN 500
                      ELSE statusCode[1],
    isOparational |-> FALSE,
    code          |-> "" ]

\* err instanceof CustomError
InstanceOfCustomError(x) == x.proto = "CustomError"

\* CustomError.serializeErrors()
serializeErrors(e) ==
  [ message |-> e.message, status |-> "error", statusCode |-> e.statusCode ]

\* One res.status(code).json(body) on the handle r: the handle afterwards
\* and whether the statement completed (ok) or threw.
Write(r, code, body) ==
  IF StatusThrows(r)
  THEN [ res |-> r, ok |-> FALSE ]
  ELSE IF JsonThrows(r)
  THEN [ res |-> [ r EXCEPT !.statusCalls = Append(@, code) ], ok |-> FALSE ]
  ELSE [ res |-> [ r EXCEPT !.statusCalls = Append(@, code),
                            !.jsonCalls = Append(@, body) ],
         ok |-> TRUE ]

\* err?.message || "Server Error"
MessageOrServerError(e) ==
  IF e.proto \in { "string", "null", "undefined" } \/ e.message = ""
  THEN "Server Error" ELSE e.message

\* The superseded globalErrorHandler(err, _req, res, _next):
\*   try {
\*     if (err instanceof CustomError) { res.status(..).json(err.serializeErrors()); }
\*     res.status(500).json({ message: err?.message || "Server Error", statusCode: 500 });
\*   } catch (error) {
\*     res.status(500).json({ message: "Something went wrong", statusCode: 500 });
\*   }
\* There is no else and no return after the first write.  The function is
\* async: an exception leaving the catch block rejects its promise.
SupersededGlobalErrorHandler(e, r) ==
  LET own == IF InstanceOfCustomError(e)
             THEN Write(r, serializeErrors(e).statusCode, serializeErrors(e))
             ELSE [ res |-> r, ok |-> TRUE ]
      generic == Write(own.res, 500,
                       [ message |-> MessageOrServerError(e), statusCode |-> 500 ])
      tried == IF own.ok THEN generic ELSE own
      fallback == Write(tried.res, 500,
                        [ message |-> "Something went wrong", statusCode |-> 500 ])
  IN  IF tried.ok
      THEN [ res |-> tried.res, outcome |-> "returned" ]
      ELSE [ res |-> fallback.res,
             outcome |-> IF fallback.ok THEN "returned" ELSE "threw" ]

\* throw new ServerError(message[, statusCode]) of the superseded taxonomy
ThrowCustomError ==
  \E m \in Messages, s \in Opt(StatusInputs) :
    /\ err' = SupersededServerError(m, s)
    /\ built' = Built("CustomError.ServerError", <<m>>, s, <<>>, <<>>)
    /\ FailureRaised

\* The host calls the superseded globalErrorHandler(err, req, res, next).
SupersededHandler ==
  /\ err # NoFailure
  /\ gehState = "idle"
  /\ res' = SupersededGlobalErrorHandler(err, res).res
  /\ gehState' = SupersededGlobalErrorHandler(err, res).outcome
  /\ UNCHANGED << err, built, formatted, calls >>
  /\ UNCHANGED varsPatch

NextSuperseded ==
  \/ ThrowCustomError
  \/ ThrowRaw
  \/ SupersededHandler
  \/ NextRequest

(***************************************************************************)
(* index.ts: the dispatch interceptor.                                      *)
(***************************************************************************)
\* What an argument of a call can be, as far as wrap() can tell them apart:
\* "next" the host's forwarding callback (callable), "obj" a truthy value
\* that is not callable (req, res, an error, a parameter value), "undef" a
\* falsy value.
ArgVals == { "next", "obj", "undef" }

\* All sequences over S of length at most n.
RECURSIVE SeqsUpTo(_, _)
SeqsUpTo(S, n) ==
  IF n = 0 THEN { <<>> }
  ELSE LET shorter == SeqsUpTo(S, n - 1) IN
       shorter \cup { Append(s, v) : s \in { t \in shorter : Len(t) = n - 1 }, v \in S }

\* The argument lists of the host's three calling conventions: a route
\* handler (req, res, next), an error handler (err, req, res, next), a
\* route-parameter handler (req, res, next, value, name).
RouteArgs == << "obj", "obj", "next" >>
ErrorHandlerArgs == << "obj", "obj", "obj", "next" >>
ParamArgs == << "obj", "obj", "next", "obj", "obj" >>
HostArgLists == { RouteArgs, ErrorHandlerArgs, ParamArgs }

\* Argument lists a wrapped handler is called with: every short list, the
\* host's conventions, and longer lists that break them.
ArgLists ==
  SeqsUpTo(ArgVals, MaxFreeArgs) \cup HostArgLists \cup
  { << "obj", "obj", "undef" >>,
    << "obj", "obj", "next", "obj" >>,
    << "obj", "obj", "obj", "obj", "next" >>,
    << "obj", "obj", "undef", "obj", "next" >> }

Receivers == { "undefined", "layer" }

\* Values a handler throws or its promise rejects with: a falsy value, a
\* plain Error, a taxonomy error.
PlainError ==
  [ proto |-> "Error", ctor |-> "", message |-> "boom", statusCode |-> 0,
    isOparational |-> FALSE, code |-> "" ]
Reasons == { UndefinedValue, PlainError, VariantError("NotFoundError", <<>>) }

\* The TypeError the engine raises when a value that is not callable is
\* called.
TypeError ==
  [ proto |-> "Error", ctor |-> "TypeError", message |-> "is not a function",
    statusCode |-> 0, isOparational |-> FALSE, code |-> "" ]

\* What a handler can return: a falsy value, a truthy value with no `catch`
\* property, an object whose `catch` is truthy but not callable, a thenable
\* (then, no catch), a promise.
ReturnVals == { "undefined", "object", "badcatch", "thenable", "promise" }

\* What the original handler does in one call: throw a value synchronously
\* or return a value.
Behaviours ==
  [ kind : { "throw" }, reason : Reasons, ret : { "undefined" } ] \cup
  [ kind : { "return" }, reason : { UndefinedValue }, ret : ReturnVals ]

\* ret && ret.catch is truthy
HasCatch(ret) == ret \in { "badcatch", "promise" }
\* ret.catch is callable
CatchCallable(ret) == ret = "promise"
\* ret settles later
Settles(ret) == ret \in { "thenable", "promise" }

\* last(arr): arr[arr.length - 1], undefined for the empty array
last(arr) == IF Len(arr) = 0 THEN "undef" ELSE arr[Len(arr)]

\* The callback always taken from the end of the list: last(args) || noop.
LocateNext_alwaysLast(args) ==
  IF last(args) = "undef" THEN "noop" ELSE last(args)

\* (args.length === 5 ? args[2] : last(args)) || noop
LocateNext(args) ==
  LET picked == IF Len(args) = 5 THEN args[3] ELSE last(args)
  IN  IF picked = "undef" THEN "noop" ELSE picked

\* The function wrap(fn) returns, called with receiver self and arguments
\* args while fn behaves as beh:
\*   const ret = fn.apply(this, args);
\*   const next = (...) || noop;
\*   if (ret && ret.catch) ret.catch((err) => next(err));
\*   return ret;
\* The result: the calls fn received, how the call ended ("threw" with the
\* value thrown, "returned" with the value returned), whether a
\* continuation was attached to fn's result, and the callback located.
newFn(self, args, beh) ==
  LET fnCalls == << [ self |-> self, args |-> args ] >> IN
  IF beh.kind = "throw"
  THEN [ fnCalls |-> fnCalls, outcome |-> "threw", thrown |-> beh.reason,
         returned |-> "undefined", attached |-> FALSE, next |-> "noop" ]
  ELSE LET next == LocateNext(args) IN
       IF HasCatch(beh.ret) /\ ~CatchCallable(beh.ret)
       THEN [ fnCalls |-> fnCalls, outcome |-> "threw", thrown |-> TypeError,
              returned |-> "undefined", attached |-> FALSE, next |-> next ]
       ELSE [ fnCalls |-> fnCalls, outcome |-> "returned", thrown |-> UndefinedValue,
              returned |-> beh.ret, attached |-> HasCatch(beh.ret), next |-> next ]

\* The continuation forwarding only truthy reasons: (err) => err && next(err).
Continuation_skipsFalsy(next, reason) ==
  IF next = "next" /\ reason.proto # "undefined"
  THEN [ nextCalls |-> << reason >>, raised |-> <<>> ]
  ELSE IF next = "obj" /\ reason.proto # "undefined"
  THEN [ nextCalls |-> <<>>, raised |-> << TypeError >> ]
  ELSE [ nextCalls |-> <<>>, raised |-> <<>> ]

\* The continuation (err) => next(err), run with the rejection reason: the
\* calls the forwarding callback receives and the exceptions the
\* continuation raises (which reject the promise ret.catch returned, a
\* promise nobody holds).
Continuation(next, reason) ==
  IF next = "next" THEN [ nextCalls |-> << reason >>, raised |-> <<>> ]
  ELSE IF next = "noop" THEN [ nextCalls |-> <<>>, raised |-> <<>> ]
  ELSE [ nextCalls |-> <<>>, raised |-> << TypeError >> ]

CallIds == 1..MaxCalls

\* A call that has not been made.
IdleCall ==
  [ st |-> "idle", self |-> "undefined", args |-> <<>>,
    beh |-> [ kind |-> "return", reason |-> UndefinedValue, ret |-> "undefined" ],
    fnCalls |-> <<>>, thrown |-> UndefinedValue, returned |-> "undefined",
    attached |-> FALSE, next |-> "noop",
    promise |-> "none", reason |-> UndefinedValue, contRun |-> FALSE,
    nextCalls |-> <<>>, unhandled |-> <<>> ]

\* The host (or anyone holding the wrapped handler) calls it: the whole of
\* newFn runs.  A result that settles later is pending when newFn returns.
Invoke(r, self, args, beh) ==
  /\ calls[r].st = "idle"
  /\ LET out == newFn(self, args, beh) IN
     calls' = [ calls EXCEPT ![r] =
       [ @ EXCEPT !.st = out.outcome, !.self = self, !.args = args, !.beh = beh,
                  !.fnCalls = out.fnCalls, !.thrown = out.thrown,
                  !.returned = out.returned, !.attached = out.attached,
                  !.next = out.next,
                  !.promise = IF out.outcome = "returned" /\ Settles(out.returned)
                              THEN "pending" ELSE "none" ] ]
  /\ UNCHANGED << err, built, formatted, res, gehState >>
  /\ UNCHANGED varsPatch

\* A wrapper attaching next to the fulfilment as well
\* (ret.then(() => next(), ...)): the callback runs when the result resolves.
Resolve_forwards(r) ==
  /\ calls[r].promise = "pending"
  /\ calls' = [ calls EXCEPT ![r].promise = "resolved",
                             ![r].nextCalls = IF calls[r].attached
                                              THEN Append(@, UndefinedValue) ELSE @ ]
  /\ UNCHANGED << err, built, formatted, res, gehState >>
  /\ UNCHANGED varsPatch

\* The handler's pending result resolves: no failure continuation runs.
Resolve(r) ==
  /\ calls[r].promise = "pending"
  /\ calls' = [ calls EXCEPT ![r].promise = "resolved" ]
  /\ UNCHANGED << err, built, formatted, res, gehState >>
  /\ UNCHANGED varsPatch

\* The handler's pending result rejects with reason x.
Reject(r, x) ==
  /\ calls[r].promise = "pending"
  /\ calls' = [ calls EXCEPT ![r].promise = "rejected", ![r].reason = x ]
  /\ UNCHANGED << err, built, formatted, res, gehState >>
  /\ UNCHANGED varsPatch

\* `next` kept in a variable of wrap() shared by all invocations of newFn
\* and set by the first of them: every continuation calls the callback of
\* the lowest call in flight.
CapturedNext_shared(r) ==
  LET live == { q \in CallIds : calls[q].st = "returned" }
      first == CHOOSE q \in live : \A p \in live : q <= p
  IN  [ owner |-> first, fn |-> calls[first].next ]

\* The `next` the continuation of invocation r calls: the const declared in
\* that invocation of newFn, located in its own argument list.  owner is the
\* invocation whose argument list the callback came from.
CapturedNext(r) == [ owner |-> r, fn |-> calls[r].next ]

\* The job queued by the rejection runs the continuation attached by newFn;
\* a call of the forwarding callback is recorded with the invocation the
\* callback belongs to.
RunContinuation(r) ==
  /\ calls[r].promise = "rejected"
  /\ calls[r].attached
  /\ ~calls[r].contRun
  /\ LET out == Continuation(CapturedNext(r).fn, calls[r].reason) IN
     calls' = [ calls EXCEPT ![r].contRun = TRUE,
                             ![r].unhandled = @ \o out.raised,
                             ![CapturedNext(r).owner].nextCalls = @ \o out.nextCalls ]
  /\ UNCHANGED << err, built, formatted, res, gehState >>
  /\ UNCHANGED varsPatch

InitWrap == calls = [ r \in CallIds |-> IdleCall ]

\* One call of the wrapped handler, over every receiver, argument list and
\* behaviour of the original.
InvokeAny == \E self \in Receivers, args \in ArgLists, beh \in Behaviours :
               Invoke(1, self, args, beh)
ResolveAny == Resolve(1)
RejectAny == \E x \in Reasons : Reject(1, x)
RunContinuationAny == RunContinuation(1)

NextWrap ==
  \/ InvokeAny
  \/ ResolveAny
  \/ RejectAny
  \/ RunContinuationAny

\* Several calls of one wrapped handler in flight together, as the host
\* makes them for concurrent requests: each with one of the host's argument
\* lists and a promise as result, settling in any order.
InvokeHost ==
  \E r \in CallIds, args \in HostArgLists, beh \in { b \in Behaviours : b.ret = "promise" } :
    Invoke(r, "undefined", args, beh)
ResolveHost == \E r \in CallIds : Resolve(r)
RejectHost == \E r \in CallIds, x \in Reasons : Reject(r, x)
RunContinuationHost == \E r \in CallIds : RunContinuation(r)

NextConcurrent ==
  \/ InvokeHost
  \/ ResolveHost
  \/ RejectHost
  \/ RunContinuationHost


(***************************************************************************)
(* One request through the pipeline: the host calls a wrapped handler, a   *)
(* failure travels the error channel, globalErrorHandler (registered last) *)
(* answers it.                                                             *)
(***************************************************************************)
\* The response handles of the pipeline: those of ResFaults and the one
\* that refuses a body after a body has been sent.
PipelineFaults == ResFaults \cup { "sent" }

\* What a registered handler does in the pipeline: throw a failure, return
\* nothing, or return a promise.  A falsy value handed to the forwarding
\* callback is no failure for the host, so failures here are truthy.
Failures == Reasons \ { UndefinedValue }
PipelineBehaviours ==
  { b \in Behaviours : /\ b.kind = "throw" => b.reason \in Failures
                       /\ b.kind = "return" => b.ret \in { "undefined", "promise" } }

\* The host dispatches the request to the wrapped handler, as a route
\* handler or as a route-parameter handler.
InvokeRequest ==
  \E args \in { RouteArgs, ParamArgs }, beh \in PipelineBehaviours :
    Invoke(1, "undefined", args, beh)

\* The handler answers the request itself, before its result settles:
\* res.json({ message: "success" }).
HandlerResponds ==
  /\ calls[1].st = "returned"
  /\ calls[1].promise \in { "none", "pending" }
  /\ res.jsonCalls = <<>>
  /\ res.fault \in { "none", "sent" }
  /\ res' = [ res EXCEPT !.jsonCalls = Append(@, [ message |-> "success" ]) ]
  /\ UNCHANGED << err, built, formatted, gehState, calls >>
  /\ UNCHANGED varsPatch

ResolveRequest == Resolve(1)
RejectRequest == \E x \in Failures : Reject(1, x)
RunRequestContinuation == RunContinuation(1)

\* The failures handed to the error channel for the request: the value a
\* synchronous throw left the wrapped handler with (the host catches it),
\* or the calls the forwarding callback received.
Forwarded ==
  IF calls[1].st = "threw" THEN << calls[1].thrown >> ELSE calls[1].nextCalls

\* The error channel hands the failure to the terminal handler's position.
HostDelivers ==
  /\ Forwarded # <<>>
  /\ err' = Forwarded[1]
  /\ built' = NotBuilt
  /\ FailureRaised

\* Nothing more happens for the request.
RequestOver ==
  /\ calls[1].st # "idle"
  /\ calls[1].promise # "pending"
  /\ calls[1].promise = "rejected" => calls[1].contRun
  /\ Forwarded # <<>> => (err # NoFailure /\ gehState # "idle")

\* The next request: a fresh call, a response handle of its own.
NextPipelineRequest ==
  /\ RequestOver
  /\ err' = NoFailure
  /\ built' = NotBuilt
  /\ formatted' = <<>>
  /\ gehState' = "idle"
  /\ \E fault \in PipelineFaults : res' = FreshRes(fault)
  /\ calls' = [ r \in CallIds |-> IdleCall ]
  /\ UNCHANGED varsPatch

NextPipeline ==
  \/ InvokeRequest
  \/ HandlerResponds
  \/ ResolveRequest
  \/ RejectRequest
  \/ RunRequestContinuation
  \/ HostDelivers
  \/ GlobalErrorHandler
  \/ NextPipelineRequest
(***************************************************************************)
(* index.ts: wrap() as a function of function objects, and the patch of    *)
(* the host's registration paths.                                          *)
(***************************************************************************)
\* Number of layers of the host's router.
MaxLayers == 2
\* Deepest nesting of wrappers a stored handler is followed to.
MaxWrapDepth == 2
\* Number of times the module body is run in one process (a second copy of
\* the package, or express-error.ts next to index.ts).
MaxLoads == 2

\* A function object, as far as wrap() and its callers can tell: orig is the
\* application's function at the bottom, depth the number of newFn
\* closures around it, length the declared arity, props the own enumerable
\* properties as <<key, value>> pairs.
NoHandler == [ orig |-> "none", depth |-> 0, length |-> 0, props |-> {} ]

\* Functions an application registers: a route handler (req, res, next); an
\* error handler (err, req, res, next) carrying an own property; a route
\* handler on which `name` was redefined as an own enumerable property.
RawFns ==
  { [ orig |-> "getUser", depth |-> 0, length |-> 3, props |-> {} ],
    [ orig |-> "onError", depth |-> 0, length |-> 4, props |-> { << "tag", "v" >> } ],
    [ orig |-> "named", depth |-> 0, length |-> 3, props |-> { << "name", "v" >> } ] }

\* Object.keys(fn)
Keys(fn) == { p[1] : p \in fn.props }

\* Own properties of the function expression newFn that are not writable:
\* `name`, and `length` (defined by wrap with writable: false).
ReadOnlyKeys == { "name", "length" }

\* copyFnProps(oldFn, newFn), newFn here wrapper: newFn[key] = oldFn[key] for
\* every key of
\* Object.keys(oldFn); returns newFn.  The module is strict code: the
\* assignment to a property of newFn that is not writable throws TypeError.
copyFnProps(oldFn, wrapper) ==
  IF Keys(oldFn) \cap ReadOnlyKeys # {}
  THEN [ outcome |-> "threw", fn |-> NoHandler ]
  ELSE [ outcome |-> "returned",
         fn |-> [ wrapper EXCEPT !.props = @ \cup oldFn.props ] ]

\* wrap(fn): the closure newFn around fn, its length defined as fn.length,
\* then copyFnProps(fn, newFn).
wrap(fn) ==
  copyFnProps(fn, [ orig |-> fn.orig, depth |-> fn.depth + 1,
                    length |-> fn.length, props |-> {} ])

\* A call of a function object of the given depth whose original behaves as
\* beh: every newFn closure on the way runs newFn's body on what the
\* function it wraps did.  attached counts the continuations attached to
\* the original's result.
RECURSIVE CallHandler(_, _, _, _)
CallHandler(depth, self, args, beh) ==
  IF depth = 0
  THEN [ outcome |-> IF beh.kind = "throw" THEN "threw" ELSE "returned",
         thrown |-> beh.reason, returned |-> beh.ret,
         attached |-> 0, next |-> "noop" ]
  ELSE LET inner == CallHandler(depth - 1, self, args, beh)
           seen == [ kind |-> IF inner.outcome = "threw" THEN "throw" ELSE "return",
                     reason |-> inner.thrown, ret |-> inner.returned ]
           out == newFn(self, args, seen)
       IN  [ outcome |-> out.outcome, thrown |-> out.thrown,
             returned |-> out.returned,
             attached |-> inner.attached + (IF out.attached THEN 1 ELSE 0),
             next |-> out.next ]

LayerIds == 1..MaxLayers
Routers == { "routerA", "routerB" }
ParamNames == { "id", "slug" }

\* What the host's own Router.param returns.
OriginalParamResult == "originalParam result"

\* Router.param as the patch leaves it, depth wrap-then-delegate functions
\* in front of the host's own:
\*   fn = wrap(fn); return originalParam.call(this, name, fn);
\* received lists the calls the host's own param got.
RECURSIVE param(_, _, _, _)
param(depth, self, name, fn) ==
  IF depth = 0
  THEN [ outcome |-> "returned",
         received |-> << [ self |-> self, name |-> name, fn |-> fn ] >>,
         result |-> OriginalParamResult ]
  ELSE IF wrap(fn).outcome = "threw"
       THEN [ outcome |-> "threw", received |-> <<>>, result |-> "none" ]
       ELSE param(depth - 1, self, name, wrap(fn).fn)

\* No handler has been registered yet.  A registration records its path
\* ("handle": layer.handle = fn; "param": router.param(name, fn)), the
\* function given, how the assignment or call ended and, for a call of
\* Router.param, what the host's own param received and the value returned.
NoRegistration ==
  [ path |-> "none", layer |-> 0, self |-> "none", name |-> "none",
    given |-> NoHandler, outcome |-> "none", received |-> <<>>, result |-> "none" ]
IdleDispatch ==
  [ st |-> "idle", layer |-> 0, args |-> <<>>,
    beh |-> [ kind |-> "return", reason |-> UndefinedValue, ret |-> "undefined" ],
    thrown |-> UndefinedValue, returned |-> "undefined", attached |-> 0,
    next |-> "noop", promise |-> "none", reason |-> UndefinedValue, ran |-> 0,
    nextCalls |-> <<>>, unhandled |-> <<>> ]

\* The module body runs (index.ts 90-105).  Object.defineProperty on
\* Layer.prototype defines `handle` as an accessor that is not configurable;
\* when the accessor is there already, defining it again throws TypeError
\* and the body ends before patchRouterParam() is reached.  Otherwise
\* patchRouterParam() puts one more function in front of Router.param.
LoadModule ==
  /\ loads < MaxLoads
  /\ loads' = loads + 1
  /\ IF accessorDefined
     THEN /\ loadErrors' = loadErrors + 1
          /\ UNCHANGED << accessorDefined, paramDepth >>
     ELSE /\ accessorDefined' = TRUE
          /\ paramDepth' = paramDepth + 1
          /\ UNCHANGED loadErrors
  /\ UNCHANGED << handle, registration, dispatch >>
  /\ UNCHANGED << err, built, formatted, res, gehState, calls >>

\* layer.handle = fn: the setter  fn = wrap(fn); this.__handle = fn.
LayerHandleSet(l, fn) ==
  /\ accessorDefined
  /\ fn.depth < MaxWrapDepth
  /\ registration' = [ path |-> "handle", layer |-> l, self |-> "none", name |-> "none",
                        given |-> fn, outcome |-> wrap(fn).outcome,
                        received |-> <<>>, result |-> "none" ]
  /\ handle' = IF wrap(fn).outcome = "returned"
               THEN [ handle EXCEPT ![l] = wrap(fn).fn ]
               ELSE handle
  /\ UNCHANGED << loads, loadErrors, accessorDefined, paramDepth, dispatch >>
  /\ UNCHANGED << err, built, formatted, res, gehState, calls >>

\* The host (or the application) assigns a function of the application to
\* a layer's handle property.
AssignRaw == \E l \in LayerIds, fn \in RawFns : LayerHandleSet(l, fn)

\* A handler read from a layer (the getter returns this.__handle) is
\* assigned to a layer.
AssignReadBack ==
  \E l \in LayerIds, k \in LayerIds :
    /\ handle[k] # NoHandler
    /\ LayerHandleSet(l, handle[k])

\* router.param(name, fn) through the patched Router.param.
RouterParam ==
  \E self \in Routers, name \in ParamNames, fn \in RawFns :
    /\ paramDepth >= 1
    /\ registration' = [ path |-> "param", layer |-> 0, self |-> self, name |-> name,
                          given |-> fn,
                          outcome |-> param(paramDepth, self, name, fn).outcome,
                          received |-> param(paramDepth, self, name, fn).received,
                          result |-> param(paramDepth, self, name, fn).result ]
    /\ UNCHANGED << loads, loadErrors, accessorDefined, paramDepth, handle, dispatch >>
    /\ UNCHANGED << err, built, formatted, res, gehState, calls >>

\* Argument lists and behaviours of the calls the host makes of a stored
\* handler.
DispatchBehaviours ==
  { b \in Behaviours : b.ret \in { "undefined", "promise" } /\ b.reason # PlainError }
DispatchReasons == { UndefinedValue, PlainError }

\* The host calls the handler stored in layer l: layer.handle(...args).
InvokeStored ==
  \E l \in LayerIds, args \in { RouteArgs }, beh \in DispatchBehaviours :
    /\ dispatch.st = "idle"
    /\ handle[l] # NoHandler
    /\ LET out == CallHandler(handle[l].depth, "layer", args, beh) IN
       dispatch' =
         [ dispatch EXCEPT !.st = out.outcome, !.layer = l, !.args = args, !.beh = beh,
                           !.thrown = out.thrown, !.returned = out.returned,
                           !.attached = out.attached, !.next = out.next,
                           !.promise = IF out.outcome = "returned" /\ Settles(out.returned)
                                       THEN "pending" ELSE "none" ]
    /\ UNCHANGED << loads, loadErrors, accessorDefined, paramDepth, handle, registration >>
    /\ UNCHANGED << err, built, formatted, res, gehState, calls >>

\* The original's pending result resolves.
ResolveStored ==
  /\ dispatch.promise = "pending"
  /\ dispatch' = [ dispatch EXCEPT !.promise = "resolved" ]
  /\ UNCHANGED << loads, loadErrors, accessorDefined, paramDepth, handle, registration >>
  /\ UNCHANGED << err, built, formatted, res, gehState, calls >>

\* The original's pending result rejects with reason x.
RejectStored ==
  \E x \in DispatchReasons :
    /\ dispatch.promise = "pending"
    /\ dispatch' = [ dispatch EXCEPT !.promise = "rejected", !.reason = x ]
    /\ UNCHANGED << loads, loadErrors, accessorDefined, paramDepth, handle, registration >>
    /\ UNCHANGED << err, built, formatted, res, gehState, calls >>

\* One of the continuations attached to the rejected result runs.
RunStoredContinuation ==
  /\ dispatch.promise = "rejected"
  /\ dispatch.ran < dispatch.attached
  /\ LET out == Continuation(dispatch.next, dispatch.reason) IN
     dispatch' = [ dispatch EXCEPT !.ran = @ + 1,
                                   !.nextCalls = @ \o out.nextCalls,
                                   !.unhandled = @ \o out.raised ]
  /\ UNCHANGED << loads, loadErrors, accessorDefined, paramDepth, handle, registration >>
  /\ UNCHANGED << err, built, formatted, res, gehState, calls >>

\* The call is over and every continuation it queued has run.
EndDispatch ==
  /\ dispatch.st # "idle"
  /\ dispatch.promise # "pending"
  /\ dispatch.promise = "rejected" => dispatch.ran = dispatch.attached
  /\ dispatch' = IdleDispatch
  /\ UNCHANGED << loads, loadErrors, accessorDefined, paramDepth, handle, registration >>
  /\ UNCHANGED << err, built, formatted, res, gehState, calls >>

InitPatch ==
  /\ loads = 0
  /\ loadErrors = 0
  /\ accessorDefined = FALSE
  /\ paramDepth = 0
  /\ handle = [ l \in LayerIds |-> NoHandler ]
  /\ registration = NoRegistration
  /\ dispatch = IdleDispatch

NextPatch ==
  \/ LoadModule
  \/ AssignRaw
  \/ AssignReadBack
  \/ RouterParam
  \/ InvokeStored
  \/ ResolveStored
  \/ RejectStored
  \/ RunStoredContinuation
  \/ EndDispatch

(***************************************************************************)
(* Specifications.                                                          *)
(***************************************************************************)
Init == InitFormat /\ InitWrap /\ InitPatch

\* The taxonomy, the formatter and the terminal handler.
SpecFormat == Init /\ [][NextFormat]_vars

\* One call of a wrapped handler.
SpecWrap == Init /\ [][NextWrap]_vars

\* Concurrent calls of a wrapped handler.
SpecConcurrent == Init /\ [][NextConcurrent]_vars


\* The patch of the host's registration paths and the calls of the handlers
\* it stored.
SpecPatch == Init /\ [][NextPatch]_vars

\* The superseded taxonomy and terminal handler.
SpecSuperseded == Init /\ [][NextSuperseded]_vars

\* One request at a time through handler, error channel and terminal
\* handler.
SpecPipeline == Init /\ [][NextPipeline]_vars

\* The same with the host's scheduling: a queued continuation runs, a
\* failure handed to the error channel is delivered, the terminal handler
\* it is delivered to is called.
SpecPipelineFair ==
  /\ SpecPipeline
  /\ WF_vars(RunRequestContinuation)
  /\ WF_vars(HostDelivers)
  /\ WF_vars(GlobalErrorHandler)

(***************************************************************************)
(* Properties of the formatter and the terminal handler (SpecFormat).      *)
(***************************************************************************)
\* C1: for a failure that is not an AppError instance, or an AppError whose
\* operational flag is false, handleError returns statusCode 500, message
\* "Internal Server Error" and code "INTERNAL_SERVER_ERROR", whatever the
\* failure's own message, statusCode and code are.
C1_NonOperationalIsGeneric500 ==
  (formatted # <<>> /\ (err.proto # "AppError" \/ ~err.isOparational)) =>
    /\ formatted[1].status = "error"
    /\ formatted[1].statusCode = 500
    /\ formatted[1].message = "Internal Server Error"
    /\ formatted[1].code = "INTERNAL_SERVER_ERROR"

\* A non-operational AppError with a message, status and code of its own
\* has been formatted.
C1_Witness ==
  /\ formatted # <<>>
  /\ err.proto = "AppError" /\ ~err.isOparational
  /\ err.message = "db down" /\ err.statusCode = 404 /\ err.code = "E_CUSTOM"

\* C2: for an AppError instance whose operational flag is true, the envelope
\* carries exactly the error's own statusCode, message and code.
C2_OperationalKeepsOwnFields ==
  (formatted # <<>> /\ err.proto = "AppError" /\ err.isOparational) =>
    /\ formatted[1].statusCode = err.statusCode
    /\ formatted[1].message = err.message
    /\ formatted[1].code = err.code

\* An operational error whose message, status and code all differ from the
\* table's defaults for that status has been formatted.
C2_Witness ==
  /\ formatted # <<>>
  /\ err.proto = "AppError" /\ err.isOparational
  /\ err.statusCode = 999 /\ err.message = "" /\ err.code = "E_CUSTOM"

\* C6: globalErrorHandler writes exactly one response on a handle that
\* accepts the writes: res.status is called once, with
\* handleError(err).statusCode, and res.json once, with a body whose four
\* fields are those of the envelope handleError(err) returns; on no handle
\* is the status or the body written twice.
C6_ExactlyOneResponse ==
  /\ Len(res.statusCalls) <= 1
  /\ Len(res.jsonCalls) <= 1
  /\ (gehState # "idle" /\ res.fault = "none") =>
       /\ gehState = "returned"
       /\ res.statusCalls = << handleError(err).statusCode >>
       /\ Len(res.jsonCalls) = 1
       /\ DOMAIN res.jsonCalls[1] = { "status", "statusCode", "message", "code" }
       /\ res.jsonCalls[1].status = handleError(err).status
       /\ res.jsonCalls[1].statusCode = handleError(err).statusCode
       /\ res.jsonCalls[1].message = handleError(err).message
       /\ res.jsonCalls[1].code = handleError(err).code

\* The terminal handler has answered an operational 404 with its own
\* message.
C6_Witness ==
  /\ gehState = "returned"
  /\ err.proto = "AppError" /\ err.isOparational
  /\ res.statusCalls = << 404 >>
  /\ Len(res.jsonCalls) = 1
  /\ res.jsonCalls[1].message = "db down"

\* C7: when writing the response fails inside globalErrorHandler (res.status
\* or res.json throws), no exception leaves the handler and the fixed
\* status-500 body with message "Something went wrong" is written.
C7_FallbackOnWriteFailure ==
  (gehState # "idle" /\ res.fault # "none") =>
    /\ gehState = "returned"
    /\ Len(res.statusCalls) >= 1
    /\ res.statusCalls[Len(res.statusCalls)] = 500
    /\ Len(res.jsonCalls) >= 1
    /\ res.jsonCalls[Len(res.jsonCalls)].message = "Something went wrong"

\* The fixed status of each fixed-status class.
FixedStatus ==
  [ BadRequestError |-> 400, UnauthorizedError |-> 401, PaymentRequiredError |-> 402,
    ForbiddenError |-> 403, NotFoundError |-> 404, MethodNotAllowedError |-> 405,
    NotAcceptableError |-> 406, RequestTimeoutError |-> 408, ConflictError |-> 409,
    GoneError |-> 410, PreconditionFailedError |-> 412, PayloadTooLargeError |-> 413,
    UnsupportedMediaTypeError |-> 415, UnprocessableEntityError |-> 422,
    TooManyRequestsError |-> 429, NotImplementedError |-> 501, BadGatewayError |-> 502,
    ServiceUnavailableError |-> 503, GatewayTimeoutError |-> 504,
    InsufficientStorageError |-> 507 ]

\* name is the HttpStatusCodes key of code
IsKeyOf(name, code) ==
  \E j \in 1..Len(HttpStatusCodes) : HttpStatusCodes[j] = << name, code >>

\* C8: each of the 20 fixed-status classes, constructed with no argument,
\* formats to its fixed status code, the DefaultStatusMessages phrase of
\* that code and the HttpStatusCodes key of that code; NotFoundError() gives
\* {status: "error", statusCode: 404, message: "Not Found", code: "NOT_FOUND"}.
C8_DefaultConstruction ==
  /\ Variants = DOMAIN FixedStatus
  /\ Cardinality(Variants) = 20
  /\ (built.ctor \in Variants /\ built.message = <<>> /\ formatted # <<>>) =>
       /\ formatted[1].status = "error"
       /\ formatted[1].statusCode = FixedStatus[built.ctor]
       /\ formatted[1].message = DefaultStatusMessages(FixedStatus[built.ctor])
       /\ formatted[1].message # Undefined
       /\ IsKeyOf(formatted[1].code, FixedStatus[built.ctor])
       /\ built.ctor = "NotFoundError" =>
            /\ formatted[1].statusCode = 404
            /\ formatted[1].message = "Not Found"
            /\ formatted[1].code = "NOT_FOUND"

\* new NotFoundError() has been formatted.
C8_Witness ==
  /\ built.ctor = "NotFoundError" /\ built.message = <<>>
  /\ formatted # <<>>
  /\ formatted[1].statusCode = 404

\* C9: for every class V (the fixed-status classes and ServerError) and
\* every message M the caller supplies, the empty string included, the
\* envelope's message is M, and the status code and code are those V has
\* whatever M is.
C9_MessageKept ==
  (built.ctor \in Variants \cup { "ServerError" } /\ built.message # <<>>
     /\ formatted # <<>>) =>
    /\ formatted[1].message = built.message[1]
    /\ built.ctor \in Variants =>
         /\ formatted[1].statusCode = FixedStatus[built.ctor]
         /\ IsKeyOf(formatted[1].code, FixedStatus[built.ctor])
    /\ built.ctor = "ServerError" =>
         /\ formatted[1].statusCode =
              (IF built.statusCode = <<>> THEN 500 ELSE built.statusCode[1])
         /\ \/ IsKeyOf(formatted[1].code, formatted[1].statusCode)
            \/ /\ formatted[1].statusCode \notin KnownStatusCodes
               /\ formatted[1].code = "INTERNAL_SERVER_ERROR"

\* new ConflictError("") has been formatted, and its message is empty.
C9_Witness ==
  /\ built.ctor = "ConflictError" /\ built.message = << "" >>
  /\ formatted # <<>>
  /\ formatted[1].message = ""

\* C10: ServerError(message) has statusCode 500 and code
\* "INTERNAL_SERVER_ERROR"; ServerError(message, S) keeps S as its statusCode
\* for any S, and when S is a code of the table its envelope carries S and
\* the key of S; ServerError("db down") gives {status: "error",
\* statusCode: 500, message: "db down", code: "INTERNAL_SERVER_ERROR"} and
\* ServerError(m, 400) gives statusCode 400, code "BAD_REQUEST".
C10_ServerErrorStatus ==
  built.ctor = "ServerError" =>
    /\ built.statusCode = <<>> =>
         /\ err.statusCode = 500
         /\ err.code = "INTERNAL_SERVER_ERROR"
         /\ formatted # <<>> =>
              /\ formatted[1].status = "error"
              /\ formatted[1].statusCode = 500
              /\ formatted[1].message = built.message[1]
              /\ formatted[1].code = "INTERNAL_SERVER_ERROR"
    /\ built.statusCode # <<>> =>
         /\ err.statusCode = built.statusCode[1]
         /\ (built.statusCode[1] \in KnownStatusCodes /\ formatted # <<>>) =>
              /\ formatted[1].statusCode = built.statusCode[1]
              /\ IsKeyOf(formatted[1].code, built.statusCode[1])
         /\ (built.statusCode[1] = 400 /\ formatted # <<>>) =>
              formatted[1].code = "BAD_REQUEST"

\* new ServerError("db down", 0) keeps the status 0 and has been formatted.
C10_Witness ==
  /\ built.ctor = "ServerError" /\ built.message = << "db down" >>
  /\ built.statusCode = << 0 >>
  /\ err.statusCode = 0
  /\ formatted # <<>>

C4_SynchronouslyTransparent ==
  \A r \in CallIds :
    calls[r].st # "idle" =>
      /\ Len(calls[r].fnCalls) = 1
      /\ calls[r].fnCalls[1].self = calls[r].self
      /\ calls[r].fnCalls[1].args = calls[r].args
      /\ calls[r].beh.kind = "throw" =>
           /\ calls[r].st = "threw"
           /\ calls[r].thrown = calls[r].beh.reason
           /\ ~calls[r].attached
           /\ calls[r].nextCalls = <<>>
      /\ calls[r].beh.kind = "return" =>
           /\ calls[r].st = "returned"
           /\ calls[r].returned = calls[r].beh.ret

\* The argument list holds no usable forwarding callback: it is empty, or
\* its last argument is falsy or not callable.
NoUsableCallback(args) ==
  \/ Len(args) = 0
  \/ Len(args) # 5 /\ args[Len(args)] # "next"

\* C5: when the argument list holds no usable forwarding callback and the
\* pending result rejects, the failure is dropped: the continuation raises
\* nothing, no new unhandled failure appears, nothing is forwarded.
C5_FailureDropped ==
  \A r \in CallIds :
    (NoUsableCallback(calls[r].args) /\ calls[r].promise = "rejected") =>
      /\ calls[r].nextCalls = <<>>
      /\ calls[r].unhandled = <<>>

(***************************************************************************)
(* Invariants of the taxonomy and the envelope (SpecFormat).               *)
(***************************************************************************)
\* A status the table knows and the wire accepts.
ValidStatus(s) == s \in 100..599 /\ s \in KnownStatusCodes

\* C11: every error built by a fixed-status class or by ServerError (with a
\* status the caller chose) has a statusCode that is an integer in 100..599
\* present in the status table, and so has every envelope handleError
\* returns for it and every status globalErrorHandler writes for it.
C11_StatusAlwaysValid ==
  built.ctor \in Variants \cup { "ServerError" } =>
    /\ ValidStatus(err.statusCode)
    /\ formatted # <<>> => ValidStatus(formatted[1].statusCode)
    /\ \A i \in 1..Len(res.statusCalls) : ValidStatus(res.statusCalls[i])

\* C12: an error built by ServerError or by a fixed-status class has its
\* operational flag true right after construction, whatever message and
\* status the constructor was given.
C12_VariantsOperational ==
  built.ctor \in Variants \cup { "ServerError" } =>
    /\ err.isOparational = TRUE
    /\ InstanceOfAppError(err)

\* new GatewayTimeoutError(""), a 5xx fixed-status error built with an empty
\* message, is operational.
C12_Witness ==
  /\ built.ctor = "GatewayTimeoutError" /\ built.message = << "" >>
  /\ err.statusCode = 504
  /\ err.isOparational

C15_SubclassRecognized ==
  built.ctor \in UserClasses =>
    /\ InstanceOfAppError(err)
    /\ err.isOparational
    /\ formatted # <<>> =>
         /\ formatted[1].statusCode = built.statusCode[1]
         /\ formatted[1].message = built.message[1]

\* new CustomFieldError("db down", 400), a class two levels below AppError,
\* has been formatted with its own status and message.
C15_Witness ==
  /\ built.ctor = "CustomFieldError"
  /\ Extends[Extends[built.ctor]] = "AppError"
  /\ formatted # <<>>
  /\ formatted[1].statusCode = 400
  /\ formatted[1].message = "db down"

(***************************************************************************)
(* Where the interceptor finds the forwarding callback (SpecWrap).         *)
(***************************************************************************)
\* The i-th positional argument, undefined past the end of the list.
ArgAt(args, i) == IF i \in 1..Len(args) THEN args[i] ELSE "undef"

\* The value the wrapper calls on rejection when the argument at position i
\* is the one it picked: that argument, or the no-op when it is falsy.
CallbackAt(args, i) == IF ArgAt(args, i) = "undef" THEN "noop" ELSE ArgAt(args, i)

\* C16: called with four arguments, the error-handling signature
\* (err, req, res, next), the wrapper uses the third positional argument as
\* the forwarding callback; with any other number of arguments it uses the
\* last one.
C16_ThirdOfFour ==
  \A r \in CallIds :
    (calls[r].st # "idle" /\ calls[r].beh.kind = "return") =>
      calls[r].next =
        CallbackAt(calls[r].args, IF Len(calls[r].args) = 4 THEN 3 ELSE Len(calls[r].args))

\* C16, amended: called with five arguments, the route-parameter signature
\* (req, res, next, value, name), the wrapper uses the third positional
\* argument as the forwarding callback; with any other number of arguments,
\* the four of (err, req, res, next) included, it uses the last one; and
\* the rejection of a returned promise reaches the host's callback exactly
\* when the argument at that position is the host's callback.
C16_ThirdOfFive ==
  \A r \in CallIds :
    (calls[r].st # "idle" /\ calls[r].beh.kind = "return") =>
      LET pos == IF Len(calls[r].args) = 5 THEN 3 ELSE Len(calls[r].args) IN
      /\ calls[r].next = CallbackAt(calls[r].args, pos)
      /\ calls[r].contRun =>
           (calls[r].nextCalls = << calls[r].reason >>) = (ArgAt(calls[r].args, pos) = "next")

\* An error handler called as (err, req, res, next) returned a promise that
\* rejected with an Error, and its fourth argument received it.
C16_Witness ==
  \E r \in CallIds :
    /\ calls[r].args = ErrorHandlerArgs
    /\ calls[r].next = "next"
    /\ calls[r].contRun
    /\ calls[r].reason.proto = "Error"
    /\ calls[r].nextCalls = << calls[r].reason >>

\* C18: a call of the wrapped handler raises an exception only if the
\* original handler raised it, whatever the original returns (undefined, a
\* falsy value, a plain object, an object whose `catch` is not callable, a
\* thenable, a promise).
C18_WrapperNeverThrows ==
  \A r \in CallIds :
    calls[r].st = "threw" =>
      /\ calls[r].beh.kind = "throw"
      /\ calls[r].thrown = calls[r].beh.reason

(***************************************************************************)
(* Properties of the patch of the registration paths (SpecPatch).          *)
(***************************************************************************)
\* w is a newFn closure directly around fn.
IsWrapperOf(w, fn) == w.orig = fn.orig /\ w.depth = fn.depth + 1

\* C17: whatever the sequence of module loads, assignments to layers
\* (handlers read back from a layer included) and calls of Router.param,
\* every stored handler is one wrapper around its original, and one
\* rejection of the original's result calls the forwarding callback once.
C17_WrappedExactlyOnce ==
  /\ \A l \in LayerIds : handle[l] # NoHandler => handle[l].depth = 1
  /\ (registration.path = "param" /\ registration.outcome = "returned") =>
       registration.received[1].fn.depth = 1
  /\ (dispatch.promise = "rejected" /\ dispatch.ran = dispatch.attached) =>
       dispatch.nextCalls = << dispatch.reason >>

\* C19: for every function f, wrap(f) is made, has f's declared arity as
\* its length and has every own enumerable property of f with f's value.
C19_WrapKeepsSurface ==
  /\ registration.path # "none" => registration.outcome = "returned"
  /\ registration.path = "handle" =>
       /\ handle[registration.layer].length = registration.given.length
       /\ handle[registration.layer].props = registration.given.props
  /\ registration.path = "param" =>
       /\ Len(registration.received) = 1
       /\ registration.received[1].fn.length = registration.given.length
       /\ registration.received[1].fn.props = registration.given.props

\* C20: after an assignment to a layer's handle property the layer holds a
\* wrapper of the function assigned, never a function of the application
\* itself; a call of the patched Router.param hands the host's own param
\* the same receiver, the same name and a wrapper of the handler given, and
\* returns what the host's own param returned.
C20_EveryRegistrationCovered ==
  /\ \A l \in LayerIds : handle[l] # NoHandler => handle[l].depth >= 1
  /\ registration.path = "handle" =>
       IsWrapperOf(handle[registration.layer], registration.given)
  /\ registration.path = "param" =>
       /\ registration.outcome = "returned"
       /\ Len(registration.received) = 1
       /\ registration.received[1].self = registration.self
       /\ registration.received[1].name = registration.name
       /\ IsWrapperOf(registration.received[1].fn, registration.given)
       /\ registration.result = OriginalParamResult

(***************************************************************************)
(* Concurrent calls of one wrapped handler (SpecConcurrent) and the timing *)
(* of the forwarding (SpecWrap).                                           *)
(***************************************************************************)
\* C21: with several calls of one wrapped handler in flight and their
\* results rejecting in any order, the callback passed to an invocation is
\* called at most once, only after that invocation's own result rejected
\* and its continuation ran, and with that invocation's own reason; the
\* continuation of an invocation reaches the callback of that invocation.
C21_ForwardedToOwnCallback ==
  \A r \in CallIds :
    /\ Len(calls[r].nextCalls) <= 1
    /\ calls[r].nextCalls # <<>> =>
         /\ calls[r].promise = "rejected"
         /\ calls[r].contRun
         /\ calls[r].nextCalls = << calls[r].reason >>
    /\ (calls[r].promise = "rejected" /\ calls[r].contRun) =>
         calls[r].nextCalls = << calls[r].reason >>

\* Two calls with different argument lists were in flight; one rejected
\* with undefined, the other with an Error, and each callback got the
\* reason of its own invocation.
C21_Witness ==
  /\ MaxCalls >= 2
  /\ calls[1].contRun /\ calls[2].contRun
  /\ calls[1].args # calls[2].args
  /\ calls[1].nextCalls = << UndefinedValue >>
  /\ calls[2].nextCalls = << PlainError >>

\* C22: the wrapped call has returned while the result is pending; the
\* forwarding callback has not been called as long as the result has not
\* rejected, and is never called when the result resolved or the handler
\* returned a value that does not settle.
C22_ForwardsOnlyOnFailure ==
  \A r \in CallIds :
    /\ calls[r].promise = "pending" =>
         /\ calls[r].st = "returned"
         /\ calls[r].returned = calls[r].beh.ret
         /\ calls[r].nextCalls = <<>>
    /\ calls[r].promise # "rejected" =>
         /\ calls[r].nextCalls = <<>>
         /\ ~calls[r].contRun
         /\ ~ENABLED RunContinuation(r)
    /\ (calls[r].promise = "rejected" /\ ~calls[r].contRun) => calls[r].nextCalls = <<>>

\* A handler called as (req, res, next) returned a promise, the call
\* returned, and the promise resolved later: next was not called.
C22_Witness ==
  \E r \in CallIds :
    /\ calls[r].args = RouteArgs
    /\ calls[r].st = "returned"
    /\ calls[r].attached
    /\ calls[r].promise = "resolved"
    /\ calls[r].nextCalls = <<>>

(***************************************************************************)
(* The code field, the status table, frames and totality (SpecFormat).     *)
(***************************************************************************)
\* C25: the code of an AppError is the code given to the constructor when
\* one is given; otherwise the HttpStatusCodes key whose value is the
\* statusCode; and "INTERNAL_SERVER_ERROR" when no key has that value (299,
\* 999, 0), the statusCode staying as given.
C25_CodeAtConstruction ==
  (err.proto = "AppError" /\ built.ctor # "") =>
    /\ built.statusCode # <<>> => err.statusCode = built.statusCode[1]
    /\ built.code # <<>> => err.code = built.code[1]
    /\ (built.code = <<>> /\ err.statusCode \in KnownStatusCodes) =>
         IsKeyOf(err.code, err.statusCode)
    /\ (built.code = <<>> /\ err.statusCode \notin KnownStatusCodes) =>
         err.code = "INTERNAL_SERVER_ERROR"

\* new AppError("db down", 999, false, "") keeps the empty code it was
\* given and the status 999.
C25_Witness ==
  /\ built.ctor = "AppError" /\ built.code = << "" >>
  /\ err.statusCode = 999
  /\ err.code = ""
  /\ ~err.isOparational

\* C26: no two names of HttpStatusCodes have the same integer; for every
\* name k, getStatusCodeKey(HttpStatusCodes[k]) is k; every integer of
\* HttpStatusCodes has a phrase in DefaultStatusMessages; and the code of
\* an error built with a status of the table names that status.
C26_TableBidirectional ==
  /\ \A j, k \in 1..Len(HttpStatusCodes) :
       HttpStatusCodes[j][2] = HttpStatusCodes[k][2] => j = k
  /\ \A j \in 1..Len(HttpStatusCodes) :
       getStatusCodeKey(HttpStatusCodes[j][2]) = HttpStatusCodes[j][1]
  /\ \A j \in 1..Len(HttpStatusCodes) :
       DefaultStatusMessages(HttpStatusCodes[j][2]) # Undefined
  /\ (err.proto = "AppError" /\ built.code = <<>> /\ err.statusCode \in KnownStatusCodes) =>
       StatusOf(err.code) = err.statusCode

\* new ServerError(m, 503) got its code by the reverse lookup.
C26_Witness ==
  /\ built.ctor = "ServerError" /\ built.statusCode = << 503 >>
  /\ err.code = "SERVICE_UNAVAILABLE"
  /\ StatusOf(err.code) = 503

\* C27: a step of handleError changes nothing but the envelope returned; a
\* step of globalErrorHandler changes nothing but the response handle (and
\* not which writes the handle refuses); a constructor changes nothing but
\* the value it builds.  The failure value is the same before and after
\* formatting and answering.
C27_FrameOfFormatting ==
  [][ /\ (formatted' # formatted /\ formatted' # <<>>) =>
           /\ err' = err /\ built' = built
           /\ res' = res /\ gehState' = gehState /\ calls' = calls
      /\ (gehState = "idle" /\ gehState' # "idle") =>
           /\ err' = err /\ built' = built
           /\ formatted' = formatted /\ calls' = calls
           /\ res'.fault = res.fault
      /\ (err = NoFailure /\ err' # NoFailure) =>
           /\ res' = res /\ calls' = calls
    ]_vars

\* A non-operational AppError with status 404 and a code of its own has
\* been formatted and answered with 500, and still has status 404.
C27_Witness ==
  /\ err.proto = "AppError" /\ ~err.isOparational
  /\ err.statusCode = 404 /\ err.code = "E_CUSTOM"
  /\ formatted # <<>> /\ formatted[1].statusCode = 500
  /\ gehState = "returned" /\ res.statusCalls = << 500 >>

\* C28: handleError returns an envelope for every failure value: taxonomy
\* errors, plain errors and objects, a string, null, undefined; the call is
\* possible whenever a failure is in hand and what it returns has a status
\* "error" and an integer statusCode.
C28_HandleErrorTotal ==
  /\ err # NoFailure => ENABLED HandleError
  /\ formatted # <<>> =>
       /\ "status" \in DOMAIN formatted[1]
       /\ formatted[1].status = "error"
       /\ formatted[1].statusCode \in Nat

\* handleError(null) returned the 500 envelope.
C28_Witness ==
  /\ err.proto = "null"
  /\ formatted # <<>>
  /\ formatted[1].statusCode = 500

\* C30: an error built by a class V (a fixed-status class, ServerError or a
\* class derived from AppError by the application) is an instance of V
\* after construction.
C30_VariantIdentityKept ==
  built.ctor \in Variants \cup UserClasses \cup { "ServerError" } =>
    built.ctor \in PrototypeChain(err.proto)

(***************************************************************************)
(* The terminal handlers of the repository (SpecSuperseded for the         *)
(* superseded one).                                                        *)
(***************************************************************************)
\* C24: in every terminal handler of the repository, a recognized error
\* (a CustomError for the superseded handler) gets its own response and
\* nothing else: on a handle that accepts the writes the handler makes one
\* status write and one body write, those of the error, and no generic 500
\* write after it.
C24_RecognizedShortCircuits ==
  (gehState # "idle" /\ res.fault = "none" /\ InstanceOfCustomError(err)) =>
    /\ res.statusCalls = << err.statusCode >>
    /\ Len(res.jsonCalls) = 1
    /\ res.jsonCalls[1].message = err.message

(***************************************************************************)
(* The pipeline of one request (SpecPipeline, SpecPipelineFair).           *)
(***************************************************************************)
\* The registered handler failed: it threw, or its pending result rejected.
HandlerFailed == calls[1].st = "threw" \/ calls[1].promise = "rejected"

\* The bodies on the response handle that globalErrorHandler wrote (the
\* envelope carries statusCode, a handler's own body does not).
EnvelopesWritten ==
  { i \in DOMAIN res.jsonCalls : "statusCode" \in DOMAIN res.jsonCalls[i] }

\* C23: with globalErrorHandler registered last, every failure of a handler
\* called with a reachable forwarding callback (a synchronous throw, a
\* pending result that rejects) leads to exactly one response written by
\* globalErrorHandler for the request.
C23_FailureAnswered ==
  HandlerFailed ~> (gehState = "returned" /\ Cardinality(EnvelopesWritten) = 1)

\* C29: for one request at most one response is written across the route
\* handler and the terminal handler, in every ordering of events: at most
\* one body is sent, and once the handler has sent its body no further
\* write is started on the response.
C29_AtMostOneResponse ==
  /\ Len(res.jsonCalls) <= 1
  /\ (res.jsonCalls # <<>> /\ DOMAIN res.jsonCalls[1] = { "message" }) =>
       res.statusCalls = <<>>
=============================================================================
